---- MODULE Spec2Model ----
(***************************************************************************)
(* Model of pfmon-1.1/examples/syst.c: a system-wide monitoring example.   *)
(* main() is a straight line of calls into libpfm (pfm_initialize,         *)
(* pfm_find_event, pfm_dispatch_events) and into the kernel control        *)
(* interface (perfmonctl), each checked for failure.  The state is main's  *)
(* locals, the kernel-side context, and what the process has written.      *)
(***************************************************************************)
EXTENDS Integers, Sequences, FiniteSets, TLC

(* ---------------------------- bounds ---------------------------------- *)
MaxCounters == 2
MaxExtra == 1
MaxCount == 2

(* ------------------------ program constants --------------------------- *)
WHICH_CPU == 0
FirstCounter == 4
PFMLIB_SUCCESS == "PFMLIB_SUCCESS"
PFMLIB_ERR_TOOMANY == "PFMLIB_ERR_TOOMANY"
PFMLIB_ERR_NOASSIGN == "PFMLIB_ERR_NOASSIGN"
PFMLIB_ERR_NOTFOUND == "PFMLIB_ERR_NOTFOUND"

\* one more name than the largest platform has counters
MaxArgs == MaxCounters + 1

NUM_PMCS == MaxCounters + MaxExtra
NUM_PMDS == MaxCounters + MaxExtra

event_list == <<"cpu_cycles", "IA64_INST_RETIRED">>

(* --------------------- the event catalog (libpfm) --------------------- *)
Catalog == <<"CPU_CYCLES", "IA64_INST_RETIRED">>

ArgNames == {"cpu_cycles", "IA64_INST_RETIRED", "bogus_event"}

Upper(name) ==
  CASE name = "cpu_cycles" -> "CPU_CYCLES"
    [] name = "bogus_event" -> "BOGUS_EVENT"
    [] OTHER -> name

InCatalog(name) == \E k \in 1..Len(Catalog) : Catalog[k] = Upper(name)

\* pfm_find_event(name, 0, &ev): the descriptor is the catalog index
pfm_find_event(name) ==
  IF InCatalog(name)
  THEN [ret |-> PFMLIB_SUCCESS,
        ev  |-> CHOOSE k \in 1..Len(Catalog) :
                  /\ Catalog[k] = Upper(name)
                  /\ \A j \in 1..(k-1) : Catalog[j] # Upper(name)]
  ELSE [ret |-> PFMLIB_ERR_NOTFOUND, ev |-> 0]

pfm_get_event_name(ev) == Catalog[ev]

(* ------------------------- small helpers ------------------------------ *)
SeqsUpTo(S, n) == UNION {[1..k -> S] : k \in 0..n}

Min(S) == CHOOSE x \in S : \A y \in S : x <= y

ZeroReg == [reg_num |-> 0, reg_value |-> 0]

Counters(n) == FirstCounter..(FirstCounter + n - 1)

ExtraReg(j) == FirstCounter + MaxCounters + j

AllRegs == 0..(FirstCounter + MaxCounters + MaxExtra)

(* ------------------- the counter allocator (libpfm) ------------------- *)
\* First fit in request order; the lowest free eligible register wins.
RECURSIVE FirstFit(_, _, _, _, _)
FirstFit(events, k, used, n, el) ==
  IF k > Len(events)
  THEN [ret |-> PFMLIB_SUCCESS, regs |-> <<>>]
  ELSE LET free == (el[events[k]] \cap Counters(n)) \ used IN
       IF free = {}
       THEN [ret |-> PFMLIB_ERR_NOASSIGN, regs |-> <<>>]
       ELSE LET r    == Min(free)
                rest == FirstFit(events, k + 1, used \cup {r}, n, el) IN
            [ret |-> rest.ret,
             regs |-> IF rest.ret = PFMLIB_SUCCESS THEN <<r>> \o rest.regs ELSE <<>>]

\* pfm_dispatch_events(&evt, pc, &cnt): the counting monitors of the request
pfm_dispatch_events(e, n, el) ==
  IF e.pfp_count > n
  THEN [ret |-> PFMLIB_ERR_TOOMANY, regs |-> <<>>]
  ELSE FirstFit(e.pfp_evt, 1, {}, n, el)

pfm_strerror(r) ==
  CASE r = PFMLIB_ERR_TOOMANY  -> "too many events"
    [] r = PFMLIB_ERR_NOASSIGN -> "cannot assign events to counters"
    [] OTHER -> "success"

(* --------------------- the kernel-side context ------------------------ *)
Errnos == {"ENOSYS", "EPERM"}

Legal(op, st) ==
  CASE op = "PFM_CREATE_CONTEXT"  -> st = "Uninitialized"
    [] op = "PFM_ENABLE"          -> st = "Created"
    [] op = "PFM_WRITE_PMCS"      -> st = "Created"
    [] op = "PFM_WRITE_PMDS"      -> st = "Created"
    [] op = "PFM_START"           -> st = "Armed"
    [] op = "PFM_STOP"            -> st = "Running"
    [] op = "PFM_READ_PMDS"       -> st \in {"Stopped", "Running"}
    [] op = "PFM_DESTROY_CONTEXT" -> st \in {"Created", "Armed", "Running", "Stopped"}
    [] OTHER -> FALSE

NextState(op, st) ==
  CASE op = "PFM_CREATE_CONTEXT"  -> "Created"
    [] op = "PFM_WRITE_PMDS"      -> "Armed"
    [] op = "PFM_START"           -> "Running"
    [] op = "PFM_STOP"            -> "Stopped"
    [] op = "PFM_DESTROY_CONTEXT" -> "Destroyed"
    [] OTHER -> st

\* what one perfmonctl call may return: 0, or -1 with an errno
Outcomes(op, st) == (IF Legal(op, st) THEN {"ok"} ELSE {}) \cup Errnos

\* registers after a successful write of the first n entries of arr
Written(regs, arr, n) ==
  [r \in AllRegs |->
     IF \E k \in 1..n : arr[k].reg_num = r
     THEN arr[Min({k \in 1..n : arr[k].reg_num = r})].reg_value
     ELSE regs[r]]

(* ------------------------------ state --------------------------------- *)
VARIABLES argv, numCounters, elig, loc, i, evt, pc, pd, cnt, ret, fatal,
          ctxState, pmc, pmd, calls, out, exitStatus

vars == <<argv, numCounters, elig, loc, i, evt, pc, pd, cnt, ret, fatal,
          ctxState, pmc, pmd, calls, out, exitStatus>>

platform == <<argv, numCounters, elig>>
kernel == <<ctxState, pmc, pmd>>
locals == <<i, evt, pc, pd, cnt, ret>>

\* p = argc > 1 ? argv+1 : event_list
p == IF Len(argv) > 0 THEN argv ELSE event_list

ZeroEvt == [pfp_evt |-> <<>>, pfp_count |-> 0]

Init ==
  /\ argv \in SeqsUpTo(ArgNames, MaxArgs)
  /\ numCounters \in 1..MaxCounters
  /\ elig \in [1..Len(Catalog) -> (SUBSET Counters(numCounters)) \ {{}}]
  /\ loc = "pfm_initialize"
  /\ i = 0
  /\ evt = ZeroEvt
  /\ pc = [k \in 1..NUM_PMCS |-> ZeroReg]
  /\ pd = [k \in 1..NUM_PMDS |-> ZeroReg]
  /\ cnt = 0
  /\ ret = PFMLIB_SUCCESS
  /\ fatal = [fmt |-> "", arg |-> ""]
  /\ ctxState = "Uninitialized"
  /\ pmc = [r \in AllRegs |-> 0]
  /\ pmd = [r \in AllRegs |-> 0]
  /\ calls = <<>>
  /\ out = <<>>
  /\ exitStatus = -1          \* -1: the process has not exited

Call(op, ok, arg) == [op |-> op, from |-> ctxState, ok |-> ok, arg |-> arg]

Printed(stream, fmt, args) == [stream |-> stream, fmt |-> fmt, args |-> args]

\* fatal_error(fmt, ...): entered with the message, see FatalError
Die(fmt, arg) ==
  /\ fatal' = [fmt |-> fmt, arg |-> arg]
  /\ loc' = "fatal_error"

\* one perfmonctl(pid, op, arr, n) call: log and kernel effect
Perfmonctl(op, arr, n, res) ==
  /\ calls' = Append(calls, Call(op, res = "ok", SubSeq(arr, 1, n)))
  /\ ctxState' = IF res = "ok" THEN NextState(op, ctxState) ELSE ctxState
  /\ pmc' = CASE res = "ok" /\ op = "PFM_ENABLE" -> [r \in AllRegs |-> 0]
              [] res = "ok" /\ op = "PFM_WRITE_PMCS" -> Written(pmc, arr, n)
              [] OTHER -> pmc
  /\ pmd' = CASE res = "ok" /\ op = "PFM_ENABLE" -> [r \in AllRegs |-> 0]
              [] res = "ok" /\ op = "PFM_WRITE_PMDS" -> Written(pmd, arr, n)
              [] OTHER -> pmd

(* ------------------------------ main ---------------------------------- *)
FmtInit    == "Can't initialize library\n"
FmtTooMany == "Too many events specified\n"
FmtFind    == "Cannot find %s event\n"
FmtConfig  == "cannot configure events: %s\n"
FmtNoSys   == "Your kernel does not have performance monitoring support!\n"
FmtCreate  == "Can't create PFM context %s\n"
FmtEnable  == "child: perfmonctl error PFM_ENABLE errno %d\n"
FmtPmcs    == "child: perfmonctl error PFM_WRITE_PMCS errno %d\n"
FmtPmds    == "child: perfmonctl error PFM_WRITE_PMDS errno %d\n"
FmtRead    == "perfmonctl error READ_PMDS errno %d\n"
FmtDestroy == "child: perfmonctl error PFM_DESTROY errno %d\n"
FmtPress   == "<Press a key to stop monitoring>\n"
FmtStopped == "<Monitoring stopped on CPU%d>\n\n"
FmtRow     == "PMD%u %20lu %s\n"

\* lines 77-80
Initialize ==
  /\ loc = "pfm_initialize"
  /\ \E ok \in BOOLEAN :
       /\ calls' = Append(calls, Call("pfm_initialize", ok, <<>>))
       /\ IF ok
          THEN /\ loc' = "check_count"
               /\ UNCHANGED <<out, exitStatus>>
          ELSE /\ out' = Append(out, Printed("stdout", FmtInit, <<>>))
               /\ exitStatus' = 1
               /\ loc' = "exited"
  /\ UNCHANGED <<platform, locals, fatal, kernel>>

\* faulty variant: the count is checked against the size of pc[] instead of the
\* number of counters
CheckCountAgainstPmcs ==
  /\ loc = "check_count"
  /\ IF Len(argv) > NUM_PMCS
     THEN /\ out' = Append(out, Printed("stdout", FmtTooMany, <<>>))
          /\ exitStatus' = 1
          /\ loc' = "exited"
          /\ UNCHANGED locals
     ELSE /\ pc' = [k \in 1..NUM_PMCS |-> ZeroReg]
          /\ pd' = [k \in 1..NUM_PMDS |-> ZeroReg]
          /\ evt' = ZeroEvt
          /\ i' = 0
          /\ loc' = "find_event"
          /\ UNCHANGED <<cnt, ret, out, exitStatus>>
  /\ UNCHANGED <<platform, fatal, kernel, calls>>

\* lines 85-111: the count check, then the memsets and the choice of p
CheckCount ==
  /\ loc = "check_count"
  /\ IF Len(argv) > numCounters
     THEN /\ out' = Append(out, Printed("stdout", FmtTooMany, <<>>))
          /\ exitStatus' = 1
          /\ loc' = "exited"
          /\ UNCHANGED locals
     ELSE /\ pc' = [k \in 1..NUM_PMCS |-> ZeroReg]
          /\ pd' = [k \in 1..NUM_PMDS |-> ZeroReg]
          /\ evt' = ZeroEvt
          /\ i' = 0
          /\ loc' = "find_event"
          /\ UNCHANGED <<cnt, ret, out, exitStatus>>
  /\ UNCHANGED <<platform, fatal, kernel, calls>>

\* faulty variant: the result of pfm_find_event is not checked; the descriptor stays as
\* memset left it, which denotes the first catalog event
FindEventSkipsUnknown ==
  /\ loc = "find_event"
  /\ i < Len(p)
  /\ LET r == pfm_find_event(p[i + 1]) IN
       /\ calls' = Append(calls, Call("pfm_find_event", r.ret = PFMLIB_SUCCESS, <<p[i + 1]>>))
       /\ evt' = [evt EXCEPT !.pfp_evt = IF r.ret = PFMLIB_SUCCESS THEN Append(@, r.ev) ELSE Append(@, 1)]
       /\ i' = i + 1
       /\ UNCHANGED <<loc, fatal>>
  /\ UNCHANGED <<platform, pc, pd, cnt, ret, kernel, out, exitStatus>>

\* lines 113-117: one iteration of the resolution loop
FindEvent ==
  /\ loc = "find_event"
  /\ i < Len(p)
  /\ LET r == pfm_find_event(p[i + 1]) IN
       /\ calls' = Append(calls, Call("pfm_find_event", r.ret = PFMLIB_SUCCESS, <<p[i + 1]>>))
       /\ IF r.ret # PFMLIB_SUCCESS
          THEN /\ Die(FmtFind, p[i + 1])
               /\ UNCHANGED <<evt, i>>
          ELSE /\ evt' = [evt EXCEPT !.pfp_evt = Append(@, r.ev)]
               /\ i' = i + 1
               /\ UNCHANGED <<loc, fatal>>
  /\ UNCHANGED <<platform, pc, pd, cnt, ret, kernel, out, exitStatus>>

\* lines 123-137: loop exit, pfp_count = i, cnt = NUM_PMCS
SetParams ==
  /\ loc = "find_event"
  /\ i >= Len(p)
  /\ evt' = [evt EXCEPT !.pfp_count = i]
  /\ cnt' = NUM_PMCS
  /\ loc' = "pfm_dispatch_events"
  /\ UNCHANGED <<platform, i, pc, pd, ret, fatal, kernel, calls, out, exitStatus>>

\* pc[] as the library fills it: the counting monitors in request order, then
\* k further control entries that belong to no requested event
FilledPc(r, k) ==
  [j \in 1..NUM_PMCS |->
     IF j <= Len(r.regs)
     THEN [reg_num |-> r.regs[j], reg_value |-> evt.pfp_evt[j]]
     ELSE IF j <= Len(r.regs) + k
          THEN [reg_num |-> ExtraReg(j - Len(r.regs)), reg_value |-> 1]
          ELSE ZeroReg]

\* lines 145-147
DispatchEvents ==
  /\ loc = "pfm_dispatch_events"
  /\ LET r == pfm_dispatch_events(evt, numCounters, elig) IN
       /\ ret' = r.ret
       /\ calls' = Append(calls, Call("pfm_dispatch_events", r.ret = PFMLIB_SUCCESS, evt.pfp_evt))
       /\ IF r.ret # PFMLIB_SUCCESS
          THEN /\ Die(FmtConfig, pfm_strerror(r.ret))
               /\ UNCHANGED <<pc, cnt>>
          ELSE /\ \E k \in 0..MaxExtra :
                    /\ pc' = FilledPc(r, k)
                    /\ cnt' = Len(r.regs) + k
               /\ loc' = "create_context"
               /\ UNCHANGED fatal
  /\ UNCHANGED <<platform, i, evt, pd, kernel, out, exitStatus>>

\* lines 152-176
CreateContext ==
  /\ loc = "create_context"
  /\ \E res \in Outcomes("PFM_CREATE_CONTEXT", ctxState) :
       /\ Perfmonctl("PFM_CREATE_CONTEXT", <<>>, 0, res)
       /\ IF res = "ok"
          THEN loc' = "enable" /\ UNCHANGED fatal
          ELSE IF res = "ENOSYS"
               THEN Die(FmtNoSys, "")
               ELSE Die(FmtCreate, res)
  /\ UNCHANGED <<platform, locals, out, exitStatus>>

\* faulty variant: the result of PFM_ENABLE is not checked
EnableUnchecked ==
  /\ loc = "enable"
  /\ \E res \in Outcomes("PFM_ENABLE", ctxState) :
       /\ Perfmonctl("PFM_ENABLE", <<>>, 0, res)
       /\ loc' = "fill_pd"
       /\ UNCHANGED fatal
  /\ UNCHANGED <<platform, locals, out, exitStatus>>

\* lines 181-183
Enable ==
  /\ loc = "enable"
  /\ \E res \in Outcomes("PFM_ENABLE", ctxState) :
       /\ Perfmonctl("PFM_ENABLE", <<>>, 0, res)
       /\ IF res = "ok"
          THEN loc' = "fill_pd" /\ UNCHANGED fatal
          ELSE Die(FmtEnable, res)
  /\ UNCHANGED <<platform, locals, out, exitStatus>>

\* faulty variant: event k is assumed to sit in the k-th counter (PMD4, PMD5, ...)
FillPdAssumesOrder ==
  /\ loc = "fill_pd"
  /\ pd' = [k \in 1..NUM_PMDS |->
              IF k <= evt.pfp_count THEN [pd[k] EXCEPT !.reg_num = FirstCounter + k - 1]
              ELSE pd[k]]
  /\ i' = evt.pfp_count
  /\ loc' = "write_pmcs"
  /\ UNCHANGED <<platform, evt, pc, cnt, ret, fatal, kernel, calls, out, exitStatus>>

\* lines 190-192: pd[i].reg_num = pc[i].reg_num for i < pfp_count
FillPd ==
  /\ loc = "fill_pd"
  /\ pd' = [k \in 1..NUM_PMDS |->
              IF k <= evt.pfp_count THEN [pd[k] EXCEPT !.reg_num = pc[k].reg_num]
              ELSE pd[k]]
  /\ i' = evt.pfp_count
  /\ loc' = "write_pmcs"
  /\ UNCHANGED <<platform, evt, pc, cnt, ret, fatal, kernel, calls, out, exitStatus>>

\* lines 201-203
WritePmcs ==
  /\ loc = "write_pmcs"
  /\ \E res \in Outcomes("PFM_WRITE_PMCS", ctxState) :
       /\ Perfmonctl("PFM_WRITE_PMCS", pc, cnt, res)
       /\ IF res = "ok"
          THEN loc' = "write_pmds" /\ UNCHANGED fatal
          ELSE Die(FmtPmcs, res)
  /\ UNCHANGED <<platform, locals, out, exitStatus>>

\* faulty variant: monitoring is never started after the counters are written
WritePmdsSkipsStart ==
  /\ loc = "write_pmds"
  /\ \E res \in Outcomes("PFM_WRITE_PMDS", ctxState) :
       /\ Perfmonctl("PFM_WRITE_PMDS", pd, evt.pfp_count, res)
       /\ IF res = "ok"
          THEN loc' = "getchar" /\ UNCHANGED fatal
          ELSE Die(FmtPmds, res)
  /\ UNCHANGED <<platform, locals, out, exitStatus>>

\* lines 204-206
WritePmds ==
  /\ loc = "write_pmds"
  /\ \E res \in Outcomes("PFM_WRITE_PMDS", ctxState) :
       /\ Perfmonctl("PFM_WRITE_PMDS", pd, evt.pfp_count, res)
       /\ IF res = "ok"
          THEN loc' = "start" /\ UNCHANGED fatal
          ELSE Die(FmtPmds, res)
  /\ UNCHANGED <<platform, locals, out, exitStatus>>

\* lines 212-215
Start ==
  /\ loc = "start"
  /\ \E res \in Outcomes("PFM_START", ctxState) :
       /\ Perfmonctl("PFM_START", <<>>, 0, res)
       /\ IF res = "ok"
          THEN /\ out' = Append(out, Printed("stdout", FmtPress, <<>>))
               /\ loc' = "getchar"
               /\ UNCHANGED fatal
          ELSE /\ Die(FmtPmcs, res)
               /\ UNCHANGED out
  /\ UNCHANGED <<platform, locals, exitStatus>>

\* line 216
GetChar ==
  /\ loc = "getchar"
  /\ loc' = "stop"
  /\ UNCHANGED <<platform, locals, fatal, kernel, calls, out, exitStatus>>

RECURSIVE SumOver(_, _)
SumOver(f, S) ==
  IF S = {} THEN 0
  ELSE LET x == CHOOSE y \in S : TRUE IN f[x] + SumOver(f, S \ {x})

\* events counted so far by the session's counters
Counted == SumOver(pmd, Counters(numCounters))

\* the hardware: a programmed counter advances while the context runs
Count ==
  /\ ctxState = "Running"
  /\ \E r \in Counters(numCounters) :
       /\ pmc[r] # 0
       /\ Counted < MaxCount
       /\ pmd' = [pmd EXCEPT ![r] = @ + 1]
  /\ UNCHANGED <<platform, loc, locals, fatal, ctxState, pmc, calls, out, exitStatus>>

\* lines 222-225
Stop ==
  /\ loc = "stop"
  /\ \E res \in Outcomes("PFM_STOP", ctxState) :
       /\ Perfmonctl("PFM_STOP", <<>>, 0, res)
       /\ IF res = "ok"
          THEN /\ out' = Append(out, Printed("stdout", FmtStopped, <<WHICH_CPU>>))
               /\ loc' = "read_pmds"
               /\ UNCHANGED fatal
          ELSE /\ Die(FmtPmcs, res)
               /\ UNCHANGED out
  /\ UNCHANGED <<platform, locals, exitStatus>>

\* faulty variant: all cnt entries are read back, not the pfp_count counters
ReadPmdsAllEntries ==
  /\ loc = "read_pmds"
  /\ \E res \in Outcomes("PFM_READ_PMDS", ctxState) :
       /\ Perfmonctl("PFM_READ_PMDS", pd, cnt, res)
       /\ IF res = "ok"
          THEN /\ pd' = [k \in 1..NUM_PMDS |->
                           IF k <= cnt
                           THEN [pd[k] EXCEPT !.reg_value = pmd[pd[k].reg_num]]
                           ELSE pd[k]]
               /\ i' = 0
               /\ loc' = "print"
               /\ UNCHANGED fatal
          ELSE /\ Die(FmtRead, res)
               /\ UNCHANGED <<pd, i>>
  /\ UNCHANGED <<platform, evt, pc, cnt, ret, out, exitStatus>>

\* lines 230-233: the kernel stores each named register's value into pd[]
ReadPmds ==
  /\ loc = "read_pmds"
  /\ \E res \in Outcomes("PFM_READ_PMDS", ctxState) :
       /\ Perfmonctl("PFM_READ_PMDS", pd, evt.pfp_count, res)
       /\ IF res = "ok"
          THEN /\ pd' = [k \in 1..NUM_PMDS |->
                           IF k <= evt.pfp_count
                           THEN [pd[k] EXCEPT !.reg_value = pmd[pd[k].reg_num]]
                           ELSE pd[k]]
               /\ i' = 0
               /\ loc' = "print"
               /\ UNCHANGED fatal
          ELSE /\ Die(FmtRead, res)
               /\ UNCHANGED <<pd, i>>
  /\ UNCHANGED <<platform, evt, pc, cnt, ret, out, exitStatus>>

\* lines 243-250: one iteration of the report loop
PrintRow ==
  /\ loc = "print"
  /\ i < evt.pfp_count
  /\ out' = Append(out, Printed("stdout", FmtRow,
                 <<pd[i + 1].reg_num, pd[i + 1].reg_value,
                   pfm_get_event_name(evt.pfp_evt[i + 1])>>))
  /\ i' = i + 1
  /\ UNCHANGED <<platform, loc, evt, pc, pd, cnt, ret, fatal, kernel, calls, exitStatus>>

\* lines 255-259
DestroyContext ==
  /\ loc = "print"
  /\ i >= evt.pfp_count
  /\ \E res \in Outcomes("PFM_DESTROY_CONTEXT", ctxState) :
       /\ Perfmonctl("PFM_DESTROY_CONTEXT", <<>>, 0, res)
       /\ IF res = "ok"
          THEN /\ exitStatus' = 0
               /\ loc' = "exited"
               /\ UNCHANGED fatal
          ELSE /\ Die(FmtDestroy, res)
               /\ UNCHANGED exitStatus
  /\ UNCHANGED <<platform, locals, out>>

\* lines 49-59: fatal_error prints to stderr and exits with status 1
FatalError ==
  /\ loc = "fatal_error"
  /\ out' = Append(out, Printed("stderr", fatal.fmt, <<fatal.arg>>))
  /\ exitStatus' = 1
  /\ loc' = "exited"
  /\ UNCHANGED <<platform, locals, fatal, kernel, calls>>

Next ==
  \/ Initialize
  \/ CheckCount
  \/ FindEvent
  \/ SetParams
  \/ DispatchEvents
  \/ CreateContext
  \/ Enable
  \/ FillPd
  \/ WritePmcs
  \/ WritePmds
  \/ Start
  \/ GetChar
  \/ Count
  \/ Stop
  \/ ReadPmds
  \/ PrintRow
  \/ DestroyContext
  \/ FatalError

Spec == Init /\ [][Next]_vars

(* ===================== observations on a run ========================== *)
CtlOrder == <<"PFM_CREATE_CONTEXT", "PFM_ENABLE", "PFM_WRITE_PMCS", "PFM_WRITE_PMDS",
              "PFM_START", "PFM_STOP", "PFM_READ_PMDS", "PFM_DESTROY_CONTEXT">>

CtlOps == {CtlOrder[k] : k \in 1..Len(CtlOrder)}

IsCtl(c) == c.op \in CtlOps

CtlCalls == SelectSeq(calls, IsCtl)

Issued(op) == \E k \in 1..Len(calls) : calls[k].op = op

Succeeded(op) == \E k \in 1..Len(calls) : calls[k].op = op /\ calls[k].ok

FailedAt(op) == \E k \in 1..Len(calls) : calls[k].op = op /\ ~calls[k].ok

Failed == \E k \in 1..Len(calls) : ~calls[k].ok

TheCall(op) == calls[CHOOSE k \in 1..Len(calls) : calls[k].op = op]

Exited == loc = "exited"

IsRow(o) == o.fmt = FmtRow

Rows == SelectSeq(out, IsRow)

ErrorFmts == {FmtInit, FmtTooMany, FmtFind, FmtConfig, FmtNoSys, FmtCreate,
              FmtEnable, FmtPmcs, FmtPmds, FmtRead, FmtDestroy}

IsError(o) == o.fmt \in ErrorFmts

Errors == SelectSeq(out, IsError)

\* the run ended with exactly this error message and no other
OnlyError(fmt) == Len(Errors) = 1 /\ Errors[1].fmt = fmt

(* ---------------------------------------------------------------------- *)
(* C1 as stated: the control operations are issued in the order create,   *)
(* enable, write-control, write-counters, start, stop, read, destroy,     *)
(* each at most once and each in its legal source state, none after       *)
(* destroy, and a run in which no call fails issues all eight and ends in *)
(* Destroyed.                                                             *)
(* ---------------------------------------------------------------------- *)
CtlInOrder ==
  /\ Len(CtlCalls) <= Len(CtlOrder)
  /\ \A k \in 1..Len(CtlCalls) :
       /\ CtlCalls[k].op = CtlOrder[k]
       /\ Legal(CtlCalls[k].op, CtlCalls[k].from)
       /\ CtlCalls[k].from # "Destroyed"
       /\ k < Len(CtlCalls) => CtlCalls[k].ok

AllEightOnce ==
  /\ Len(CtlCalls) = Len(CtlOrder)
  /\ \A k \in 1..Len(CtlCalls) : CtlCalls[k].ok
  /\ ctxState = "Destroyed"

C1_AsStated ==
  /\ CtlInOrder
  /\ (Exited /\ ~Failed) => AllEightOnce

\* C1 amended: the same order, legality and at-most-once properties hold in
\* every run, and a run in which no call fails and the event-count check of
\* line 85 passes issues all eight operations exactly once and ends in Destroyed.
C1_Order ==
  /\ CtlInOrder
  /\ (Exited /\ ~Failed /\ Len(argv) <= numCounters) => AllEightOnce

C1_Witness == Exited /\ ~Failed /\ Len(argv) <= numCounters /\ Len(CtlCalls) = 8

(* ---------------------------------------------------------------------- *)
(* C2 as stated (for runs whose library initialisation succeeded, so that *)
(* the capacity is known): whenever the events to monitor, p, outnumber   *)
(* pfm_get_num_counters(), the run fails with the too-many-events error   *)
(* and no other, pfm_dispatch_events is never called on that set and      *)
(* PFM_CREATE_CONTEXT is never issued.                                    *)
(* ---------------------------------------------------------------------- *)
OverCapacity == Len(p) > numCounters

C2_WitnessDefault ==
  /\ Exited /\ Succeeded("pfm_initialize")
  /\ Len(argv) = 0 /\ OverCapacity
  /\ Issued("pfm_dispatch_events")

(* ---------------------------------------------------------------------- *)
(* C3 as stated (for runs whose library initialisation succeeded): for    *)
(* every requested list holding a name that is not in the catalog, the    *)
(* run fails with the unknown-event error at the first such name in       *)
(* request order, pfm_dispatch_events is never called and no control      *)
(* operation is issued.                                                   *)
(* ---------------------------------------------------------------------- *)
HasUnknown == \E k \in 1..Len(p) : ~InCatalog(p[k])

FirstUnknown == p[Min({k \in 1..Len(p) : ~InCatalog(p[k])})]

UnknownReported ==
  /\ Len(Errors) = 1
  /\ Errors[1].fmt = FmtFind
  /\ Errors[1].args = <<FirstUnknown>>
  /\ exitStatus = 1

C3_AsStated ==
  (Succeeded("pfm_initialize") /\ HasUnknown) =>
     /\ ~Issued("pfm_dispatch_events")
     /\ Len(CtlCalls) = 0
     /\ Exited => UnknownReported

\* C3 amended: for every requested list holding a name that is not in the
\* catalog, pfm_dispatch_events is never called and no control operation is
\* issued; when pfm_initialize succeeded and the command-line names do not
\* outnumber the capacity, the run fails with the unknown-event error at the
\* first such name in request order, and otherwise it fails earlier, with the
\* initialisation error or the too-many-events error.
C3_Unknown ==
  HasUnknown =>
     /\ ~Issued("pfm_dispatch_events")
     /\ Len(CtlCalls) = 0
     /\ (Exited /\ Succeeded("pfm_initialize") /\ Len(argv) <= numCounters)
          => UnknownReported
     /\ (Exited /\ FailedAt("pfm_initialize")) => OnlyError(FmtInit)
     /\ (Exited /\ Succeeded("pfm_initialize") /\ Len(argv) > numCounters)
          => OnlyError(FmtTooMany)

\* a known name precedes the unknown one, and the unknown one is reported
C3_Witness ==
  /\ Exited /\ HasUnknown /\ UnknownReported
  /\ Len(p) >= 2 /\ InCatalog(p[1])

(* ---------------------------------------------------------------------- *)
(* C4: every failure is terminal and is not retried.  Once a call of      *)
(* pfm_initialize, pfm_find_event, pfm_dispatch_events or perfmonctl has  *)
(* failed, it is the last call of the run, no result row is printed       *)
(* afterwards, the process goes straight to its exit with a non-zero      *)
(* status; and the exit status is 0 only when all eight control           *)
(* operations succeeded.                                                  *)
(* ---------------------------------------------------------------------- *)
Last(q) == q[Len(q)]

C4_State ==
  /\ Failed =>
       /\ ~Last(calls).ok
       /\ \A k \in 1..(Len(calls) - 1) : calls[k].ok
       /\ loc \in {"fatal_error", "exited"}
       /\ Exited => (exitStatus = 1 /\ Len(Errors) = 1 /\ IsError(Last(out)))
  /\ Exited => exitStatus \in {0, 1}
  /\ exitStatus = 0 =>
       /\ Exited
       /\ \A k \in 1..Len(CtlOrder) : Succeeded(CtlOrder[k])
       /\ ~Failed

C4_Step ==
  /\ Failed => calls' = calls
  /\ Failed' => Rows' = Rows
  /\ Exited => UNCHANGED <<loc, calls, out, exitStatus>>

ArmOrStartFailed ==
  \/ FailedAt("PFM_ENABLE")
  \/ FailedAt("PFM_WRITE_PMCS")
  \/ FailedAt("PFM_WRITE_PMDS")
  \/ FailedAt("PFM_START")

C5_AsStated ==
  (Exited /\ Succeeded("PFM_CREATE_CONTEXT") /\ ArmOrStartFailed)
     => Issued("PFM_DESTROY_CONTEXT")

(* ---------------------------------------------------------------------- *)
(* C6 as stated: the message printed when a phase fails names that phase  *)
(* and no other phase.                                                    *)
(* ---------------------------------------------------------------------- *)
OpPhase(op) ==
  CASE op = "pfm_initialize"      -> "initialize"
    [] op = "pfm_find_event"      -> "resolve"
    [] op = "pfm_dispatch_events" -> "allocate"
    [] op = "PFM_CREATE_CONTEXT"  -> "create-context"
    [] op = "PFM_ENABLE"          -> "enable"
    [] op = "PFM_WRITE_PMCS"      -> "write-control"
    [] op = "PFM_WRITE_PMDS"      -> "write-counters"
    [] op = "PFM_START"           -> "start"
    [] op = "PFM_STOP"            -> "stop"
    [] op = "PFM_READ_PMDS"       -> "read-counters"
    [] op = "PFM_DESTROY_CONTEXT" -> "destroy-context"
    [] OTHER -> "none"

\* the phase a message text names
FmtPhase(fmt) ==
  CASE fmt = FmtInit    -> "initialize"
    [] fmt = FmtFind    -> "resolve"
    [] fmt = FmtConfig  -> "allocate"
    [] fmt = FmtNoSys   -> "create-context"
    [] fmt = FmtCreate  -> "create-context"
    [] fmt = FmtEnable  -> "enable"
    [] fmt = FmtPmcs    -> "write-control"
    [] fmt = FmtPmds    -> "write-counters"
    [] fmt = FmtRead    -> "read-counters"
    [] fmt = FmtDestroy -> "destroy-context"
    [] OTHER -> "none"

C6_AsStated ==
  (Exited /\ Failed) =>
     /\ Len(Errors) = 1
     /\ FmtPhase(Errors[1].fmt) = OpPhase(Last(calls).op)

(* ---------------------------------------------------------------------- *)
(* C7: one row per requested event, in request order; row k carries the   *)
(* catalog name of the k-th requested event, the register assigned to     *)
(* that event and the value read back from that register; no row is       *)
(* printed for a control entry that belongs to no requested event.        *)
(* ---------------------------------------------------------------------- *)
\* the register the allocator gave the k-th requested event
Assigned(k) == pfm_dispatch_events(evt, numCounters, elig).regs[k]

ReportDone == Issued("PFM_DESTROY_CONTEXT")

C7_Rows ==
  /\ Len(Rows) > 0 => Succeeded("PFM_READ_PMDS")
  /\ Len(Rows) <= Len(p)
  /\ ReportDone => Len(Rows) = Len(p)
  /\ \A k \in 1..Len(Rows) :
       /\ Rows[k].args[1] = Assigned(k)
       /\ Rows[k].args[1] \in Counters(numCounters)
       /\ Rows[k].args[2] = pmd[Assigned(k)]
       /\ Rows[k].args[3] = Catalog[pfm_find_event(p[k]).ev]
       /\ Upper(p[k]) = Rows[k].args[3]

\* two rows whose registers are not in ascending order, with a count read back
\* and a control entry beyond the requested events
C7_Witness ==
  /\ ReportDone /\ Len(Rows) = 2
  /\ Rows[1].args[1] > Rows[2].args[1]
  /\ Rows[1].args[2] # Rows[2].args[2]
  /\ cnt > evt.pfp_count

(* ---------------------------------------------------------------------- *)
(* C8 as stated: for every request of at most capacity events for which   *)
(* some one-to-one placement onto eligible registers exists, allocation   *)
(* succeeds and returns one assignment per event, with pairwise distinct  *)
(* registers, each within bounds and eligible for its event; and the      *)
(* allocation step issues no control-interface operation.                 *)
(* ---------------------------------------------------------------------- *)
HasPlacement(events, n, el) ==
  \E f \in [1..Len(events) -> Counters(n)] :
     /\ \A a, b \in 1..Len(events) : a # b => f[a] # f[b]
     /\ \A a \in 1..Len(events) : f[a] \in el[events[a]]

GoodAssignment(events, n, el) ==
  /\ cnt >= Len(events)
  /\ \A a \in 1..Len(events) :
       /\ pc[a].reg_num \in Counters(n)
       /\ pc[a].reg_num \in el[events[a]]
       /\ \A b \in 1..Len(events) : a # b => pc[a].reg_num # pc[b].reg_num

C8_AsStated ==
  Issued("pfm_dispatch_events") =>
    LET c == TheCall("pfm_dispatch_events") IN
      /\ c.from = "Uninitialized"
      /\ \A k \in 1..Len(calls) :
           IsCtl(calls[k]) => \E j \in 1..(k - 1) : calls[j].op = "pfm_dispatch_events"
      /\ (Len(c.arg) <= numCounters /\ HasPlacement(c.arg, numCounters, elig)) =>
           /\ c.ok
           /\ GoodAssignment(c.arg, numCounters, elig)

(* ---------------------------------------------------------------------- *)
(* C10: assignments are applied as allocated and never changed after arm. *)
(* write-control gets all cnt entries the allocation returned, unmodified;*)
(* write-counters and read-counters both get exactly pfp_count entries    *)
(* whose register numbers equal, position by position, those of the first *)
(* pfp_count control entries; every initial value written is zero; and no *)
(* register number changes between write-counters and read-counters.      *)
(* ---------------------------------------------------------------------- *)
RegNums(arr) == [k \in 1..Len(arr) |-> arr[k].reg_num]

C10_State ==
  /\ Issued("PFM_WRITE_PMCS") =>
       LET w == TheCall("PFM_WRITE_PMCS").arg IN
         /\ Len(w) = cnt
         /\ cnt >= evt.pfp_count
         /\ w = SubSeq(pc, 1, cnt)
         /\ \A k \in 1..evt.pfp_count :
              w[k] = [reg_num |-> Assigned(k), reg_value |-> evt.pfp_evt[k]]
         /\ \A k \in (evt.pfp_count + 1)..cnt :
              w[k] = [reg_num |-> ExtraReg(k - evt.pfp_count), reg_value |-> 1]
  /\ Issued("PFM_WRITE_PMDS") =>
       LET w == TheCall("PFM_WRITE_PMCS").arg
           d == TheCall("PFM_WRITE_PMDS").arg IN
         /\ Len(d) = evt.pfp_count
         /\ evt.pfp_count = Len(p)
         /\ RegNums(d) = SubSeq(RegNums(w), 1, evt.pfp_count)
         /\ \A k \in 1..Len(d) : d[k].reg_value = 0
  /\ Issued("PFM_READ_PMDS") =>
       LET d == TheCall("PFM_WRITE_PMDS").arg
           r == TheCall("PFM_READ_PMDS").arg IN
         /\ Len(r) = evt.pfp_count
         /\ RegNums(r) = RegNums(d)
         /\ {r[k].reg_num : k \in 1..Len(r)} = {d[k].reg_num : k \in 1..Len(d)}

C10_Step ==
  Issued("PFM_WRITE_PMCS") =>
    /\ RegNums(pc)' = RegNums(pc)
    /\ RegNums(pd)' = RegNums(pd)
    /\ cnt' = cnt
    /\ evt' = evt

C10_Applied == []C10_State /\ [][C10_Step]_vars

C10_Witness ==
  /\ Succeeded("PFM_READ_PMDS")
  /\ cnt > evt.pfp_count
  /\ evt.pfp_count = 2
  /\ pd[1].reg_value # 0

====
